---- MODULE Spec2Model ----
(***************************************************************************)
(* SubjectViewer (src/src/containers/SubjectViewer.jsx): the pointer       *)
(* tracker, the mode router and the image-space coordinate mapper of the   *)
(* anti-slavery-manuscripts subject viewer, with the part of the Redux     *)
(* store the component reads and dispatches to.                            *)
(*                                                                         *)
(* Numbers.  JavaScript numbers are modelled as exact rationals <<n, d>>   *)
(* in lowest terms with d >= 0.  d = 0 encodes what a division by zero     *)
(* gives in JavaScript: <<1,0>> is Infinity, <<-1,0>> is -Infinity and     *)
(* <<0,0>> is NaN.  Floating-point rounding is not modelled.               *)
(***************************************************************************)
EXTENDS Integers, Sequences, FiniteSets, TLC

VARIABLES
  store,           \* the Redux store, as mapStateToProps hands it to the component
  pointer,         \* this.pointer  [start, now, state]
  rectangleStart,  \* this.rectangleStart
  tmpTransform,    \* this.tmpTransform
  cropping,        \* this.state.cropping
  mouseInViewer,   \* this.state.mouseInViewer
  popup,           \* this.state.popup
  boundingBox,     \* this.svg.getBoundingClientRect()
  asyncStore,      \* whether the store applies a dispatch later than the call
  pending,         \* dispatches not yet applied to the store
  dispatched,      \* the actions the last handler dispatched, in order
  mapArg,          \* the event of the last direct call of the image-space mapper
  result,          \* what that call did
  dom,             \* the page: the component's lifecycle phase, its element refs
                   \* (this.section, this.svg, this.svgImage), the svg's viewBox
                   \* and the listeners on window and document
  liveDrag,        \* history: a pointer-down has been handled in NAVIGATING mode
                   \* and no pointer-up or pointer-leave event has arrived since
  line,            \* a line of aggregated previous annotations
  sentences        \* what constructText returned for the line, once called

vars == <<store, pointer, rectangleStart, tmpTransform, cropping, mouseInViewer,
          popup, boundingBox, asyncStore, pending, dispatched, mapArg, result, dom,
          liveDrag, line, sentences>>

textVars == <<line, sentences>>

componentVars == <<pointer, rectangleStart, tmpTransform, cropping, mouseInViewer, popup>>

(***************************************************************************)
(* Rational arithmetic                                                     *)
(***************************************************************************)
Abs(n) == IF n < 0 THEN -n ELSE n

Sign(n) == IF n < 0 THEN -1 ELSE IF n > 0 THEN 1 ELSE 0

RECURSIVE GCD(_, _)
GCD(a, b) == IF b = 0 THEN a ELSE GCD(b, a % b)

\* n/d in lowest terms; a zero denominator keeps only the sign (Infinity, NaN)
Norm(n, d) ==
  IF d = 1 THEN <<n, 1>>
  ELSE IF d = 0 THEN <<Sign(n), 0>>
  ELSE LET g == GCD(Abs(n), Abs(d))
       IN  <<(Sign(d) * n) \div g, Abs(d) \div g>>

Num(n) == <<n, 1>>

RAdd(a, b) == Norm(a[1] * b[2] + b[1] * a[2], a[2] * b[2])

RNeg(a) == <<-a[1], a[2]>>

RSub(a, b) == RAdd(a, RNeg(b))

RMul(a, b) == Norm(a[1] * b[1], a[2] * b[2])

\* a / b as JavaScript divides: x/0 is +-Infinity, 0/0 is NaN
RDiv(a, b) == Norm(a[1] * b[2], a[2] * b[1])

RLe(a, b) == a[1] * b[2] <= b[1] * a[2]

IsFinite(a) == a[2] # 0

Half(n) == RDiv(n, Num(2))

(***************************************************************************)
(* Constants of the component                                              *)
(***************************************************************************)
INPUT_STATE == [IDLE |-> 0, ACTIVE |-> 1]

SUBJECTVIEWER_STATE ==
  [NAVIGATING |-> "NAVIGATING", ANNOTATING |-> "ANNOTATING", CROPPING |-> "CROPPING"]

NAVIGATING == SUBJECTVIEWER_STATE.NAVIGATING

ANNOTATING == SUBJECTVIEWER_STATE.ANNOTATING

CROPPING == SUBJECTVIEWER_STATE.CROPPING

IDLE == INPUT_STATE.IDLE

ACTIVE == INPUT_STATE.ACTIVE

KEY_CODES == [ESCAPE |-> 27, ENTER |-> 13]

ZOOM_STEP == Norm(1, 10)

\* Math.cos and Math.sin of an angle given in degrees, for the multiples of 90
CosDeg(deg) ==
  LET r == deg % 360
  IN  IF r = 0 THEN Num(1) ELSE IF r = 180 THEN Num(-1) ELSE Num(0)

SinDeg(deg) ==
  LET r == deg % 360
  IN  IF r = 90 THEN Num(1) ELSE IF r = 270 THEN Num(-1) ELSE Num(0)

(***************************************************************************)
(* Events.  A DOM event carries clientX/clientY (a mouse event) or a list  *)
(* of touches, or neither.  hasXY = FALSE stands for an undefined field.   *)
(***************************************************************************)
NoXY == [hasXY |-> FALSE, clientX |-> Num(0), clientY |-> Num(0)]

XY(x, y) == [hasXY |-> TRUE, clientX |-> x, clientY |-> y]

MouseEvent(x, y) == [mouse |-> XY(Num(x), Num(y)), touches |-> <<>>]

TouchEvent(x, y) == [mouse |-> NoXY, touches |-> <<XY(Num(x), Num(y))>>]

EmptyEvent == [mouse |-> NoXY, touches |-> <<>>]

\* a mouse event at the client position xy
MouseEventAt(xy) == [mouse |-> XY(xy.x, xy.y), touches |-> <<>>]

\* JavaScript truthiness of a numeric field: undefined and 0 are falsy
Truthy(has, v) == has /\ v # Num(0)

Origin == [x |-> Num(0), y |-> Num(0)]

(***************************************************************************)
(* The page.  An element ref is present or null; the listener lists of     *)
(* window ('resize') and document ('keyup') hold component instances, an   *)
(* instance's bound method being one function.                             *)
(***************************************************************************)
NoElement == [present |-> FALSE, width |-> 0, height |-> 0]

Element(w, h) == [present |-> TRUE, width |-> w, height |-> h]

\* this.svgImage: null, or the SVGImage component with its .image
NoSVGImage == [present |-> FALSE, image |-> NoElement]

SVGImageOf(img) == [present |-> TRUE, image |-> img]

\* the svg as render writes it: viewBox="0 0 100 100"
RenderedViewBox == <<Num(0), Num(0), Num(100), Num(100)>>

\* a mounted component in a 202 x 102 section, its svg sized to 200 x 100
DomMounted ==
  [phase |-> "mounted", instance |-> 1,
   section |-> Element(202, 102), svg |-> TRUE,
   svgImage |-> SVGImageOf(Element(40, 20)),
   viewBox |-> <<Num(-100), Num(-50), Num(200), Num(100)>>,
   resize |-> {1}, keyup |-> {1}]

(***************************************************************************)
(* The coordinate mapper                                                   *)
(***************************************************************************)
getBoundingBox ==
  IF dom.svg THEN boundingBox ELSE [left |-> 0, top |-> 0, width |-> 1, height |-> 1]

\* A different extraction: an event with no usable coordinates gives (0,0)
getPointerXYOriginDefault(e) ==
  LET box == getBoundingBox
      m == e.mouse
      t == IF Len(e.touches) > 0 THEN e.touches[1] ELSE NoXY
      useMouse == Truthy(m.hasXY, m.clientX) /\ Truthy(m.hasXY, m.clientY)
      useTouch == Truthy(t.hasXY, t.clientX) /\ Truthy(t.hasXY, t.clientY)
      xy == IF useMouse THEN m ELSE t
  IN  IF useMouse \/ useTouch
      THEN [x |-> RSub(xy.clientX, Num(box.left)), y |-> RSub(xy.clientY, Num(box.top))]
      ELSE Origin

getPointerXY(e) ==
  LET box == getBoundingBox
      m == e.mouse
      useMouse == Truthy(m.hasXY, m.clientX) /\ Truthy(m.hasXY, m.clientY)
      t == IF Len(e.touches) > 0 THEN e.touches[1] ELSE NoXY
      useTouch == /\ ~useMouse
                  /\ Len(e.touches) > 0
                  /\ Truthy(t.hasXY, t.clientX)
                  /\ Truthy(t.hasXY, t.clientY)
      clientX == IF useMouse THEN m.clientX ELSE IF useTouch THEN t.clientX ELSE Num(0)
      clientY == IF useMouse THEN m.clientY ELSE IF useTouch THEN t.clientY ELSE Num(0)
      sizeRatioX == Num(1)
      sizeRatioY == Num(1)
  IN  [x |-> RMul(RSub(clientX, Num(box.left)), sizeRatioX),
       y |-> RMul(RSub(clientY, Num(box.top)), sizeRatioY)]

\* A different mapper: the translation undone before the scaling
InvertTransformTranslateFirst(p, s, tx, ty, rot, vs, is) ==
  LET x1 == RSub(p.x, Half(Num(vs.width)))
      y1 == RSub(p.y, Half(Num(vs.height)))
      x2 == RDiv(RSub(x1, tx), s)
      y2 == RDiv(RSub(y1, ty), s)
      c == CosDeg(-rot)
      sn == SinDeg(-rot)
      x3 == RSub(RMul(x2, c), RMul(y2, sn))
      y3 == RAdd(RMul(x2, sn), RMul(y2, c))
  IN  [x |-> RAdd(x3, Half(Num(is.width))), y |-> RAdd(y3, Half(Num(is.height)))]

\* The mapper after its safety check: from the viewport-local point p, for the
\* transform (s, tx, ty, rot) and the sizes vs (viewer) and is (image)
InvertTransform(p, s, tx, ty, rot, vs, is) ==
  LET x1 == RSub(p.x, Half(Num(vs.width)))
      y1 == RSub(p.y, Half(Num(vs.height)))
      x2 == RSub(RDiv(x1, s), tx)
      y2 == RSub(RDiv(y1, s), ty)
      c == CosDeg(-rot)
      sn == SinDeg(-rot)
      x3 == RSub(RMul(x2, c), RMul(y2, sn))
      y3 == RAdd(RMul(x2, sn), RMul(y2, c))
  IN  [x |-> RAdd(x3, Half(Num(is.width))), y |-> RAdd(y3, Half(Num(is.height)))]

\* A different mapper: no test of props.scaling before the divisions
MapNoSafetyCheck(e) ==
  [called |-> TRUE,
   xy |-> InvertTransform(getPointerXY(e), store.scaling, store.translationX,
                          store.translationY, store.rotation, store.viewerSize,
                          store.imageSize),
   alert |-> FALSE, divided |-> TRUE]

\* What one call of getPointerXYOnImage does: the point it returns, whether it
\* raised the alert, and whether it reached the divisions by props.scaling
MapOnImage(e) ==
  IF store.scaling = Num(0)
  THEN [called |-> TRUE, xy |-> getPointerXY(e), alert |-> TRUE, divided |-> FALSE]
  ELSE [called |-> TRUE,
        xy |-> InvertTransform(getPointerXY(e), store.scaling, store.translationX,
                               store.translationY, store.rotation, store.viewerSize,
                               store.imageSize),
        alert |-> FALSE, divided |-> TRUE]

getPointerXYOnImage(e) == MapOnImage(e).xy

NoResult == [called |-> FALSE, xy |-> Origin, alert |-> FALSE, divided |-> FALSE]

\* render: where the image point p is drawn, in client coordinates.  The <g>
\* holding the image carries scale(s) translate(tx, ty) rotate(rot), image
\* coordinates are offset by half the image size, the viewBox puts (0,0) at the
\* centre of the svg, and the svg sits at the bounding box's left/top.
toDeviceSpace(p) ==
  LET qx == RSub(p.x, Half(Num(store.imageSize.width)))
      qy == RSub(p.y, Half(Num(store.imageSize.height)))
      c == CosDeg(store.rotation)
      sn == SinDeg(store.rotation)
      rx == RSub(RMul(qx, c), RMul(qy, sn))
      ry == RAdd(RMul(qx, sn), RMul(qy, c))
      ux == RMul(store.scaling, RAdd(rx, store.translationX))
      uy == RMul(store.scaling, RAdd(ry, store.translationY))
  IN  [x |-> RAdd(RAdd(ux, Half(Num(store.viewerSize.width))), Num(getBoundingBox.left)),
       y |-> RAdd(RAdd(uy, Half(Num(store.viewerSize.height))), Num(getBoundingBox.top))]

(***************************************************************************)
(* The store: the action creators the component imports from               *)
(* ducks/subject-viewer and ducks/annotations, and their reducers.         *)
(***************************************************************************)
Action(type) == [type |-> type, x |-> Num(0), y |-> Num(0), mode |-> ""]

setViewerState(mode) == [Action("SET_VIEWER_STATE") EXCEPT !.mode = mode]

setScaling(s) == [Action("SET_SCALING") EXCEPT !.x = s]

setTranslation(x, y) == [Action("SET_TRANSLATION") EXCEPT !.x = x, !.y = y]

addAnnotationPoint(x, y) == [Action("ADD_ANNOTATION_POINT") EXCEPT !.x = x, !.y = y]

completeAnnotation == Action("COMPLETE_ANNOTATION")

updateViewerSize(w, h) == [Action("UPDATE_VIEWER_SIZE") EXCEPT !.x = Num(w), !.y = Num(h)]

updateImageSize(w, h) == [Action("UPDATE_IMAGE_SIZE") EXCEPT !.x = Num(w), !.y = Num(h)]

setImageMetadata(w, h) == [Action("SET_IMAGE_METADATA") EXCEPT !.x = Num(w), !.y = Num(h)]

resetView == Action("RESET_VIEW")

fetchSubject == Action("FETCH_SUBJECT")

\* the index is carried in x, the list (the user's or the previous
\* annotations) in mode
selectAnnotation(index, previousAnnotation) ==
  [Action("SELECT_ANNOTATION") EXCEPT
     !.x = Num(index), !.mode = IF previousAnnotation THEN "previous" ELSE "user"]

NoAnnotation == [isNull |-> TRUE, points |-> <<>>]

ReduceAddPoint(st, a) ==
  LET p == [x |-> a.x, y |-> a.y]
  IN  [st EXCEPT !.annotationInProgress =
         IF st.annotationInProgress.isNull
         THEN [isNull |-> FALSE, points |-> <<p>>]
         ELSE [isNull |-> FALSE, points |-> Append(st.annotationInProgress.points, p)]]

ReduceComplete(st) ==
  IF st.annotationInProgress.isNull THEN st
  ELSE [st EXCEPT !.annotations = Append(st.annotations, st.annotationInProgress.points),
                  !.annotationInProgress = NoAnnotation]

Reduce(st, a) ==
  CASE a.type = "SET_VIEWER_STATE" -> [st EXCEPT !.viewerState = a.mode]
    [] a.type = "SET_SCALING" -> [st EXCEPT !.scaling = a.x]
    [] a.type = "SET_TRANSLATION" -> [st EXCEPT !.translationX = a.x, !.translationY = a.y]
    [] a.type = "ADD_ANNOTATION_POINT" -> ReduceAddPoint(st, a)
    [] a.type = "COMPLETE_ANNOTATION" -> ReduceComplete(st)
    [] a.type = "UPDATE_VIEWER_SIZE" ->
         [st EXCEPT !.viewerSize = [width |-> a.x[1], height |-> a.y[1]]]
    [] a.type = "UPDATE_IMAGE_SIZE" ->
         [st EXCEPT !.imageSize = [width |-> a.x[1], height |-> a.y[1]]]
    [] OTHER -> st

RECURSIVE ReduceAll(_, _)
ReduceAll(st, acts) ==
  IF acts = <<>> THEN st ELSE ReduceAll(Reduce(st, Head(acts)), Tail(acts))

\* this.props.dispatch, called once per action of acts, in order
Dispatch(acts) ==
  /\ IF asyncStore
     THEN pending' = pending \o acts /\ store' = store
     ELSE pending' = pending /\ store' = ReduceAll(store, acts)
  /\ dispatched' = acts

DefaultStore ==
  [viewerState |-> NAVIGATING,
   scaling |-> Num(1),
   translationX |-> Num(0),
   translationY |-> Num(0),
   rotation |-> 0,
   viewerSize |-> [width |-> 0, height |-> 0],
   imageSize |-> [width |-> 0, height |-> 0],
   annotationInProgress |-> NoAnnotation,
   annotations |-> <<>>,
   reminderSeen |-> FALSE]

(***************************************************************************)
(* The component: constructor and event handlers                           *)
(***************************************************************************)
\* this.tmpTransform is null after construction, an object during a drag and
\* false after a drag
NullTransform ==
  [tag |-> "null", scale |-> Num(0), translateX |-> Num(0), translateY |-> Num(0)]

FalseTransform == [NullTransform EXCEPT !.tag = "false"]

\* A different snapshot: the scale only, the translation taken as (0,0)
SetTransformScaleOnly(st) ==
  [tag |-> "set", scale |-> st.scaling, translateX |-> Num(0), translateY |-> Num(0)]

SetTransform(st) ==
  [tag |-> "set", scale |-> st.scaling, translateX |-> st.translationX,
   translateY |-> st.translationY]

constructor ==
  /\ pointer = [start |-> Origin, now |-> Origin, state |-> IDLE]
  /\ rectangleStart = Origin
  /\ tmpTransform = NullTransform
  /\ cropping = IDLE
  /\ mouseInViewer = FALSE
  /\ popup = "null"

\* A different pan: the delta divided by the store's current scaling
PanTranslationByCurrentScale(tmp, ptr) ==
  setTranslation(
    RAdd(tmp.translateX, RDiv(RSub(ptr.now.x, ptr.start.x), store.scaling)),
    RAdd(tmp.translateY, RDiv(RSub(ptr.now.y, ptr.start.y), store.scaling)))

\* onMouseMove, NAVIGATING: the translation a drag proposes
PanTranslation(tmp, ptr) ==
  LET pointerDelta == [x |-> RSub(ptr.now.x, ptr.start.x),
                       y |-> RSub(ptr.now.y, ptr.start.y)]
  IN  setTranslation(RAdd(tmp.translateX, RDiv(pointerDelta.x, tmp.scale)),
                     RAdd(tmp.translateY, RDiv(pointerDelta.y, tmp.scale)))

\* A different pointer-up: every point completes the annotation
AnnotatingUpCompletesAtOnce(e) ==
  LET p == getPointerXYOnImage(e)
  IN  <<addAnnotationPoint(p.x, p.y), completeAnnotation>>

\* onMouseUp, ANNOTATING: the actions dispatched, in order
AnnotatingUpActions(e) ==
  LET pointerXYOnImage == getPointerXYOnImage(e)
      aip == store.annotationInProgress
  IN  <<addAnnotationPoint(pointerXYOnImage.x, pointerXYOnImage.y)>>
      \o (IF ~aip.isNull /\ Len(aip.points) >= 1 THEN <<completeAnnotation>> ELSE <<>>)

\* A different crop start: the viewport-local point
CropStartInViewport(e) == getPointerXY(e)

\* onMouseDown, CROPPING: the point recorded as the rectangle's start
CropStart(e) == getPointerXYOnImage(e)

\* onMouseUp, CROPPING: the actions dispatched
CropUpActions == <<setViewerState(NAVIGATING)>>

(* Where a handler reads a property of a value that may be null.  Reading a
   property of null throws a TypeError and the handler does not complete;
   reading one of false gives undefined and throws nothing. *)
\* A different test: the snapshot is not tested
HasSnapshotUnchecked(tmp) == TRUE

\* onMouseMove: the test of this.tmpTransform, falsy when null or false
HasSnapshot(tmp) == tmp.tag = "set"

\* A different test: the annotation in progress is not tested
HasAnnotationUnchecked(aip) == TRUE

\* onMouseUp: the test of this.props.annotationInProgress, falsy when null
HasAnnotation(aip) == ~aip.isNull

\* onMouseMove, NAVIGATING: this.tmpTransform.translateX and .scale are read
\* once the phase is ACTIVE and the snapshot has passed its test
onMouseMoveThrows(mode, ptr, tmp) ==
  /\ mode = NAVIGATING
  /\ ptr.state = ACTIVE /\ HasSnapshot(tmp)
  /\ tmp.tag = "null"

\* onMouseUp, ANNOTATING: annotationInProgress.points and its length are
\* read once the annotation in progress has passed its test
onMouseUpThrows(mode, aip) ==
  /\ mode = ANNOTATING
  /\ HasAnnotation(aip)
  /\ aip.isNull

\* A different pointer-down: a drag starts in ANNOTATING mode as well
onMouseDownDragsWhileAnnotating(e) ==
  /\ UNCHANGED <<mouseInViewer, popup, boundingBox, asyncStore, mapArg, result, dom>>
  /\ Dispatch(<<>>)
  /\ IF store.viewerState \in {NAVIGATING, ANNOTATING} THEN
       LET pointerXY == getPointerXY(e)
       IN  /\ UNCHANGED <<rectangleStart, cropping>>
           /\ pointer' = [state |-> ACTIVE, start |-> pointerXY, now |-> pointerXY]
           /\ tmpTransform' = SetTransform(store)
     ELSE IF store.viewerState = CROPPING THEN
       /\ UNCHANGED <<pointer, tmpTransform>>
       /\ cropping' = ACTIVE
       /\ rectangleStart' = getPointerXYOnImage(e)
     ELSE
       UNCHANGED <<pointer, tmpTransform, rectangleStart, cropping>>

onMouseDown(e) ==
  /\ UNCHANGED <<mouseInViewer, popup, boundingBox, asyncStore, mapArg, result, dom>>
  /\ Dispatch(<<>>)
  /\ IF store.viewerState = NAVIGATING THEN
       LET pointerXY == getPointerXY(e)
       IN  /\ UNCHANGED <<rectangleStart, cropping>>
           /\ pointer' = [state |-> ACTIVE, start |-> pointerXY, now |-> pointerXY]
           /\ tmpTransform' = SetTransform(store)
     ELSE IF store.viewerState = ANNOTATING THEN
       UNCHANGED <<pointer, tmpTransform, rectangleStart, cropping>>
     ELSE IF store.viewerState = CROPPING THEN
       /\ UNCHANGED <<pointer, tmpTransform>>
       /\ cropping' = ACTIVE
       /\ rectangleStart' = CropStart(e)
     ELSE
       UNCHANGED <<pointer, tmpTransform, rectangleStart, cropping>>

onMouseUp(e) ==
  /\ UNCHANGED <<rectangleStart, mouseInViewer, boundingBox, asyncStore, mapArg, result, dom>>
  /\ popup' = IF store.viewerState = ANNOTATING /\ ~store.reminderSeen
              THEN "AnnotationReminder" ELSE popup
  /\ IF store.viewerState = NAVIGATING THEN
       /\ UNCHANGED cropping
       /\ tmpTransform' = FalseTransform
       /\ pointer' = [pointer EXCEPT !.state = IDLE, !.now = getPointerXY(e)]
       /\ Dispatch(<<>>)
     ELSE IF store.viewerState = ANNOTATING THEN
       /\ UNCHANGED <<pointer, tmpTransform, cropping>>
       /\ Dispatch(AnnotatingUpActions(e))
     ELSE IF store.viewerState = CROPPING THEN
       /\ UNCHANGED <<pointer, tmpTransform>>
       /\ cropping' = IDLE
       /\ Dispatch(CropUpActions)
     ELSE
       /\ UNCHANGED <<pointer, tmpTransform, cropping>>
       /\ Dispatch(<<>>)

onMouseMove(e) ==
  /\ UNCHANGED <<rectangleStart, tmpTransform, cropping, popup, boundingBox, asyncStore,
                 mapArg, result, dom>>
  /\ IF store.viewerState = NAVIGATING THEN
       LET moved == [pointer EXCEPT !.now = getPointerXY(e)]
       IN  /\ UNCHANGED mouseInViewer
           /\ pointer' = moved
           /\ IF moved.state = ACTIVE /\ tmpTransform.tag = "set"
              THEN Dispatch(<<PanTranslation(tmpTransform, moved)>>)
              ELSE Dispatch(<<>>)
     ELSE
       /\ UNCHANGED pointer
       /\ mouseInViewer' = TRUE
       /\ Dispatch(<<>>)

onMouseLeave(e) ==
  /\ mouseInViewer' = FALSE
  /\ pointer' = IF store.viewerState = NAVIGATING
                THEN [pointer EXCEPT !.state = IDLE] ELSE pointer
  /\ Dispatch(<<>>)
  /\ UNCHANGED <<rectangleStart, tmpTransform, cropping, popup, boundingBox, asyncStore,
                 mapArg, result, dom>>

onMouseEnter(e) ==
  /\ mouseInViewer' = TRUE
  /\ Dispatch(<<>>)
  /\ UNCHANGED <<pointer, rectangleStart, tmpTransform, cropping, popup, boundingBox,
                 asyncStore, mapArg, result, dom>>

\* A different abort: ESCAPE in any mode
EscapesCropInAnyMode(key) == key = KEY_CODES.ESCAPE

\* escapeCrop: whether the key-up aborts a crop
EscapesCrop(key) == key = KEY_CODES.ESCAPE /\ store.viewerState = CROPPING

escapeCrop(key) ==
  /\ UNCHANGED <<pointer, rectangleStart, tmpTransform, mouseInViewer, popup, boundingBox,
                 asyncStore, mapArg, result, dom>>
  /\ IF EscapesCrop(key)
     THEN /\ cropping' = IDLE
          /\ Dispatch(<<setViewerState(NAVIGATING)>>)
     ELSE /\ UNCHANGED cropping
          /\ Dispatch(<<>>)

\* A different pan tool: the gesture in progress is reset with the mode
usePanToolResetsGesture ==
  /\ Dispatch(<<setViewerState(NAVIGATING)>>)
  /\ pointer' = [pointer EXCEPT !.state = IDLE]
  /\ tmpTransform' = FalseTransform
  /\ cropping' = IDLE
  /\ UNCHANGED <<rectangleStart, mouseInViewer, popup, boundingBox, asyncStore, mapArg,
                 result, dom>>

usePanTool ==
  /\ Dispatch(<<setViewerState(NAVIGATING)>>)
  /\ UNCHANGED <<componentVars, boundingBox, asyncStore, mapArg, result, dom>>

ZoomInProposal == RAdd(store.scaling, ZOOM_STEP)

ZoomOutProposal == RSub(store.scaling, ZOOM_STEP)

useZoomIn ==
  /\ Dispatch(<<setScaling(ZoomInProposal)>>)
  /\ UNCHANGED <<componentVars, boundingBox, asyncStore, mapArg, result, dom>>

useZoomOut ==
  /\ Dispatch(<<setScaling(ZoomOutProposal)>>)
  /\ UNCHANGED <<componentVars, boundingBox, asyncStore, mapArg, result, dom>>

\* A different selection: made whether or not an annotation is in progress
SelectActionsAlways(indexOfAnnotation, isPreviousAnnotation) ==
  <<selectAnnotation(indexOfAnnotation, isPreviousAnnotation)>>

\* onSelectAnnotation: the actions dispatched
SelectActions(indexOfAnnotation, isPreviousAnnotation) ==
  IF store.annotationInProgress.isNull
  THEN <<selectAnnotation(indexOfAnnotation, isPreviousAnnotation)>>
  ELSE <<>>

onSelectAnnotation(indexOfAnnotation, isPreviousAnnotation) ==
  /\ UNCHANGED <<componentVars, boundingBox, asyncStore, mapArg, result, dom>>
  /\ Dispatch(SelectActions(indexOfAnnotation, isPreviousAnnotation))

(***************************************************************************)
(* The component: lifecycle                                                *)
(***************************************************************************)
ARBITRARY_OFFSET == 2

\* render: the ref callbacks store the section, the svg and, when a subject
\* is shown, the SVGImage; the svg is written with its literal viewBox
render(d, section, svgImage) ==
  [d EXCEPT !.section = section, !.svg = TRUE, !.svgImage = svgImage,
            !.viewBox = RenderedViewBox]

\* A different guard: no check of the refs
hasRefsUnchecked(d) == TRUE

\* updateSize: both refs are set
hasRefs(d) == d.section.present /\ d.svg

\* A different size: taken from the svg's own box
svgSizeFromBox(d, box) ==
  [width |-> box.width - ARBITRARY_OFFSET, height |-> box.height - ARBITRARY_OFFSET]

\* updateSize: w and h, the section's size less the offset
svgSize(d, box) ==
  [width |-> d.section.width - ARBITRARY_OFFSET,
   height |-> d.section.height - ARBITRARY_OFFSET]

\* updateSize: the viewBox it writes, centred on (0,0)
updateSizeDom(d, box) ==
  LET w == svgSize(d, box).width
      h == svgSize(d, box).height
  IN  IF hasRefs(d)
      THEN [d EXCEPT !.viewBox = <<RNeg(Half(Num(w))), RNeg(Half(Num(h))), Num(w), Num(h)>>]
      ELSE d

\* updateSize: the svg's box once its style has the new width and height
updateSizeBox(d, box) ==
  IF hasRefs(d)
  THEN [box EXCEPT !.width = svgSize(d, box).width, !.height = svgSize(d, box).height]
  ELSE box

\* updateSize: the report, the size read back from the svg's box
updateSizeActions(d, box) ==
  IF hasRefs(d)
  THEN LET svgW == updateSizeBox(d, box).width
           svgH == updateSizeBox(d, box).height
       IN  <<updateViewerSize(svgW, svgH)>>
  ELSE <<>>

updateSize ==
  /\ UNCHANGED <<componentVars, asyncStore, mapArg, result>>
  /\ dom' = updateSizeDom(dom, boundingBox)
  /\ boundingBox' = updateSizeBox(dom, boundingBox)
  /\ Dispatch(updateSizeActions(dom, boundingBox))

\* componentDidMount: the two addEventListener calls
AddListeners(d) ==
  [d EXCEPT !.resize = @ \cup {d.instance}, !.keyup = @ \cup {d.instance}]

\* A different teardown: the key-up listener stays
RemoveListenersResizeOnly(d) == [d EXCEPT !.resize = @ \ {d.instance}]

\* componentWillUnmount: the two removeEventListener calls
RemoveListeners(d) ==
  [d EXCEPT !.resize = @ \ {d.instance}, !.keyup = @ \ {d.instance}]

\* componentDidMount, on the page d as render left it
componentDidMount(d) ==
  /\ UNCHANGED <<componentVars, asyncStore, mapArg, result>>
  /\ dom' = [updateSizeDom(AddListeners(d), boundingBox) EXCEPT !.phase = "mounted"]
  /\ boundingBox' = updateSizeBox(AddListeners(d), boundingBox)
  /\ Dispatch(updateSizeActions(AddListeners(d), boundingBox) \o <<fetchSubject>>)

\* componentWillUnmount, after which the ref callbacks are called with null
componentWillUnmount ==
  /\ UNCHANGED <<componentVars, boundingBox, asyncStore, mapArg, result>>
  /\ dom' = [RemoveListeners(dom) EXCEPT !.phase = "unmounted", !.section = NoElement,
                                         !.svg = FALSE, !.svgImage = NoSVGImage]
  /\ Dispatch(<<>>)

\* A different image-load: the viewer size is reported again
ImageLoadActionsWithResize ==
  IF dom.svgImage.present /\ dom.svgImage.image.present
  THEN LET imgW == IF dom.svgImage.image.width # 0 THEN dom.svgImage.image.width ELSE 1
           imgH == IF dom.svgImage.image.height # 0 THEN dom.svgImage.image.height ELSE 1
       IN  <<setImageMetadata(imgW, imgH), updateImageSize(imgW, imgH), resetView>>
           \o updateSizeActions(dom, boundingBox)
  ELSE <<>>

\* onImageLoad: the actions dispatched, in order
ImageLoadActions ==
  IF dom.svgImage.present /\ dom.svgImage.image.present
  THEN LET imgW == IF dom.svgImage.image.width # 0 THEN dom.svgImage.image.width ELSE 1
           imgH == IF dom.svgImage.image.height # 0 THEN dom.svgImage.image.height ELSE 1
       IN  <<setImageMetadata(imgW, imgH), updateImageSize(imgW, imgH), resetView>>
  ELSE <<>>

onImageLoad ==
  /\ UNCHANGED <<componentVars, boundingBox, asyncStore, mapArg, result, dom>>
  /\ Dispatch(ImageLoadActions)

(***************************************************************************)
(* The environment: the rest of the application and the store's scheduling *)
(***************************************************************************)
\* Another component (the toolbar) dispatches setViewerState: the mode is owned
\* by the store and may change between any two events.
SelectMode(mode) ==
  /\ dispatched' = <<>>
  /\ store' = Reduce(store, setViewerState(mode))
  /\ UNCHANGED <<componentVars, boundingBox, asyncStore, pending, mapArg, result, dom,
                 liveDrag, textVars>>

\* An asynchronous store applies one of the dispatches it still holds; nothing
\* orders two dispatches of one handler.
ApplyPending ==
  \E i \in 1..Len(pending) :
    /\ store' = Reduce(store, pending[i])
    /\ pending' = SubSeq(pending, 1, i - 1) \o SubSeq(pending, i + 1, Len(pending))
    /\ UNCHANGED <<componentVars, boundingBox, asyncStore, dispatched, mapArg, result, dom,
                   liveDrag, textVars>>

\* A sibling renderer (AnnotationsPane, Crop) calls the mapper it was handed
CallMapper(e) ==
  /\ mapArg' = e
  /\ result' = MapOnImage(e)
  /\ UNCHANGED <<store, componentVars, boundingBox, asyncStore, pending, dispatched, dom,
                 liveDrag, textVars>>

(***************************************************************************)
(* Bounds                                                                  *)
(***************************************************************************)
\* annotation points the store is let to hold, in progress and completed
MaxPoints == 2

\* the largest |translation| a drag is let to propose
MaxTranslate == 50

\* pointer positions, as mouse events
PointerEvents == {MouseEvent(100, 100), MouseEvent(150, 130)}

Keys == {KEY_CODES.ESCAPE, KEY_CODES.ENTER}

Within(a, cap) == IsFinite(a) /\ RLe(Num(-cap), a) /\ RLe(a, Num(cap))

\* a pointer-move is offered when the translation its drag proposes is in range
MoveInRange(e) ==
  LET moved == [pointer EXCEPT !.now = getPointerXY(e)]
      t == PanTranslation(tmpTransform, moved)
  IN  (store.viewerState = NAVIGATING /\ pointer.state = ACTIVE /\ tmpTransform.tag = "set")
        => (Within(t.x, MaxTranslate) /\ Within(t.y, MaxTranslate))

RECURSIVE PointsIn(_)
PointsIn(anns) == IF anns = <<>> THEN 0 ELSE Len(Head(anns)) + PointsIn(Tail(anns))

PointsHeld(st) == Len(st.annotationInProgress.points) + PointsIn(st.annotations)

\* a pointer-up is offered while the store has room for the point it appends
UpInRange == store.viewerState = ANNOTATING => PointsHeld(store) < MaxPoints

(***************************************************************************)
(* Previous annotations: the text of an aggregated line                    *)
(* (lib/construct-previous-annotations.js)                                 *)
(*                                                                         *)
(* A word is null or a string; a string is the sequence of its characters. *)
(* A line is null, or an object that has a clusters_text array or has      *)
(* none; clusters_text is an array of clusters, a cluster an array of      *)
(* words.                                                                  *)
(***************************************************************************)
NullWord == [isNull |-> TRUE, chars |-> <<>>]

Str(chars) == [isNull |-> FALSE, chars |-> chars]

NullLine == [isNull |-> TRUE, has_clusters_text |-> FALSE, clusters_text |-> <<>>]

LineWithoutText == [isNull |-> FALSE, has_clusters_text |-> FALSE, clusters_text |-> <<>>]

Line(clusters) == [isNull |-> FALSE, has_clusters_text |-> TRUE, clusters_text |-> clusters]

NotCalled == [called |-> FALSE, value |-> <<>>]

Returned(value) == [called |-> TRUE, value |-> value]

\* Array.prototype.join: the elements in order, the separator between each two
RECURSIVE JoinFrom(_, _, _, _)
JoinFrom(acc, value, sep, k) ==
  IF k > Len(value) THEN acc
  ELSE JoinFrom((IF k > 1 THEN acc \o sep ELSE acc) \o value[k].chars, value, sep, k + 1)

join(value, sep) == JoinFrom(<<>>, value, sep, 1)

\* a variant of the inner loop that pushes every word, empty or not
RECURSIVE AddWordsKeepingEmpty(_, _, _)
AddWordsKeepingEmpty(acc, value, i) ==
  IF i > Len(value) THEN acc
  ELSE LET made == IF i > Len(acc) THEN Append(acc, <<>>) ELSE acc
       IN AddWordsKeepingEmpty([made EXCEPT ![i] = Append(@, value[i])], value, i + 1)

\* the inner map over one cluster: slot i of the accumulator is created when
\* it is missing, and the word is pushed when it is truthy and has a length
RECURSIVE AddWords(_, _, _)
AddWords(acc, value, i) ==
  IF i > Len(value) THEN acc
  ELSE LET word == value[i]
           made == IF i > Len(acc) THEN Append(acc, <<>>) ELSE acc
           pushed == IF ~word.isNull /\ Len(word.chars) > 0
                       THEN [made EXCEPT ![i] = Append(@, word)]
                       ELSE made
       IN AddWords(pushed, value, i + 1)

\* the outer map over the clusters, in order
RECURSIVE AddClusters(_, _, _)
AddClusters(acc, clusters, k) ==
  IF k > Len(clusters) THEN acc
  ELSE AddClusters(AddWords(acc, clusters[k], 1), clusters, k + 1)

constructText(l) ==
  LET collected == IF ~l.isNull /\ l.has_clusters_text
                     THEN AddClusters(<<>>, l.clusters_text, 1)
                     ELSE <<>>
  IN [i \in 1..Len(collected) |-> join(collected[i], <<" ">>)]

(***************************************************************************)
(* The viewer on a synchronous store                                       *)
(***************************************************************************)
Box0 == [left |-> 0, top |-> 0, width |-> 200, height |-> 100]

Quiet ==
  /\ dom = DomMounted
  /\ liveDrag = FALSE
  /\ line = NullLine
  /\ sentences = NotCalled
  /\ pending = <<>>
  /\ dispatched = <<>>
  /\ mapArg = EmptyEvent
  /\ result = NoResult

Init ==
  /\ store = [DefaultStore EXCEPT !.viewerSize = [width |-> 200, height |-> 100],
                                  !.imageSize = [width |-> 40, height |-> 20]]
  /\ boundingBox = Box0
  /\ asyncStore = FALSE
  /\ constructor
  /\ Quiet

MouseDown == \E e \in PointerEvents : onMouseDown(e) /\ UNCHANGED <<liveDrag, textVars>>

MouseUp == \E e \in PointerEvents : UpInRange /\ onMouseUp(e) /\ UNCHANGED <<liveDrag, textVars>>

MouseMove == \E e \in PointerEvents : MoveInRange(e) /\ onMouseMove(e) /\ UNCHANGED <<liveDrag, textVars>>

MouseLeave == \E e \in PointerEvents : onMouseLeave(e) /\ UNCHANGED <<liveDrag, textVars>>

MouseEnter == \E e \in PointerEvents : onMouseEnter(e) /\ UNCHANGED <<liveDrag, textVars>>

KeyUp == \E key \in Keys : escapeCrop(key) /\ UNCHANGED <<liveDrag, textVars>>

PanTool == usePanTool /\ UNCHANGED <<liveDrag, textVars>>

ToolbarAnnotate == SelectMode(ANNOTATING)

ToolbarCrop == SelectMode(CROPPING)

Next ==
  \/ MouseDown
  \/ MouseUp
  \/ MouseMove
  \/ MouseLeave
  \/ MouseEnter
  \/ KeyUp
  \/ PanTool
  \/ ToolbarAnnotate
  \/ ToolbarCrop

Spec == Init /\ [][Next]_vars

(***************************************************************************)
(* Claims on the synchronous viewer (Spec)                                 *)
(***************************************************************************)
\* C1: in ANNOTATING mode a pointer-up with no annotation in progress
\* dispatches exactly one append-point and no complete-annotation; a
\* pointer-up with one point in progress dispatches append-point, then
\* complete-annotation, and the store then holds the two points as one
\* completed annotation.  So every completed annotation has exactly 2 points
\* and the annotation in progress never holds more than 1 point between
\* events.
C1_TwoPointerUpsMakeOneAnnotation ==
  /\ [](/\ \A i \in 1..Len(store.annotations) : Len(store.annotations[i]) = 2
        /\ Len(store.annotationInProgress.points) <= 1)
  /\ [][\A e \in PointerEvents :
          (store.viewerState = ANNOTATING /\ onMouseUp(e)) =>
            LET p == MapOnImage(e).xy
                aip == store.annotationInProgress
            IN  /\ aip.isNull =>
                     /\ dispatched' = <<addAnnotationPoint(p.x, p.y)>>
                     /\ store'.annotationInProgress = [isNull |-> FALSE, points |-> <<p>>]
                     /\ store'.annotations = store.annotations
                /\ (~aip.isNull /\ Len(aip.points) = 1) =>
                     /\ dispatched' = <<addAnnotationPoint(p.x, p.y), completeAnnotation>>
                     /\ store'.annotationInProgress = NoAnnotation
                     /\ store'.annotations =
                          Append(store.annotations, <<aip.points[1], p>>)]_vars

\* C1 witness: the second pointer-up has completed an annotation of the two
\* points clicked, (100,100) then (150,130) in the viewport
C1_Witness ==
  /\ store.annotations = << <<[x |-> Num(20), y |-> Num(60)], [x |-> Num(70), y |-> Num(90)]>> >>
  /\ store.annotationInProgress = NoAnnotation
  /\ dispatched = <<addAnnotationPoint(Num(70), Num(90)), completeAnnotation>>

\* C4: at most one of pan-drag (pointer phase ACTIVE), annotation-draw (an
\* annotation in progress) and crop-rectangle-draw (cropping flag ACTIVE) is
\* active, and the mode decides which: the cropping flag is ACTIVE only in
\* CROPPING mode and the pointer phase is ACTIVE only in NAVIGATING mode.
C4_OneGestureActive ==
  /\ cropping = ACTIVE => store.viewerState = CROPPING
  /\ pointer.state = ACTIVE => store.viewerState = NAVIGATING
  /\ ~(pointer.state = ACTIVE /\ cropping = ACTIVE)

\* C5: in CROPPING mode a pointer-down records the image-space pointer
\* position as rectangleStart and sets the cropping flag to ACTIVE; a
\* pointer-up sets the flag to IDLE and dispatches set-mode NAVIGATING.  Both
\* leave the pointer state (so an IDLE phase stays IDLE) and the pointer-up
\* leaves rectangleStart as the pointer-down recorded it.
C5_CropGesture ==
  [][\A e \in PointerEvents :
       /\ (store.viewerState = CROPPING /\ onMouseDown(e)) =>
            /\ rectangleStart' = MapOnImage(e).xy
            /\ cropping' = ACTIVE
            /\ dispatched' = <<>>
            /\ UNCHANGED <<store, pointer, tmpTransform>>
       /\ (store.viewerState = CROPPING /\ onMouseUp(e)) =>
            /\ cropping' = IDLE
            /\ dispatched' = <<setViewerState(NAVIGATING)>>
            /\ store' = [store EXCEPT !.viewerState = NAVIGATING]
            /\ UNCHANGED <<rectangleStart, pointer, tmpTransform>>]_vars

\* C5 witness: a crop gesture that went down at viewport (150,130) is over
C5_Witness ==
  /\ rectangleStart = [x |-> Num(70), y |-> Num(90)]
  /\ cropping = IDLE
  /\ store.viewerState = NAVIGATING
  /\ dispatched = <<setViewerState(NAVIGATING)>>
  /\ pointer.state = IDLE

\* C6: a key-up of ESCAPE in CROPPING mode sets the cropping flag to IDLE and
\* dispatches set-mode NAVIGATING, changing nothing else (rectangleStart and
\* the rest of the store are kept); any other key-up, and ESCAPE in another
\* mode, dispatches nothing and changes no state.
C6_EscapeAbortsCropOnly ==
  [][\A key \in Keys :
       escapeCrop(key) =>
         IF key = 27 /\ store.viewerState = "CROPPING"
         THEN /\ cropping' = IDLE
              /\ dispatched' = <<setViewerState(NAVIGATING)>>
              /\ store'.annotations = store.annotations
              /\ UNCHANGED <<rectangleStart, pointer, tmpTransform>>
         ELSE /\ dispatched' = <<>>
              /\ UNCHANGED <<store, componentVars>>]_vars

\* C6 witness: a crop that had recorded its start is aborted: the flag is
\* IDLE again, the mode NAVIGATING, the recorded start still there
C6_Witness ==
  /\ rectangleStart = [x |-> Num(20), y |-> Num(60)]
  /\ cropping = IDLE
  /\ store.viewerState = NAVIGATING
  /\ store.annotations = <<>>
  /\ dispatched = <<setViewerState(NAVIGATING)>>

(***************************************************************************)
(* Panning while the scale changes: NAVIGATING mode, drags and zoom steps  *)
(***************************************************************************)
\* the scalings the zoom buttons are let to reach around 2, in tenths
MinNavTenths == 19

MaxNavTenths == 21

NavZoomInRange(s) == RLe(Norm(MinNavTenths, 10), s) /\ RLe(s, Norm(MaxNavTenths, 10))

\* a drag's pointer-move is offered when the translation that the snapshot,
\* the start and the event give is a whole number within MaxTranslate
DragInRange(e) ==
  LET cur == getPointerXY(e)
      tx == RAdd(tmpTransform.translateX,
                 RDiv(RSub(cur.x, pointer.start.x), tmpTransform.scale))
      ty == RAdd(tmpTransform.translateY,
                 RDiv(RSub(cur.y, pointer.start.y), tmpTransform.scale))
  IN  (pointer.state = ACTIVE /\ tmpTransform.tag = "set")
        => /\ Within(tx, MaxTranslate) /\ tx[2] = 1
           /\ Within(ty, MaxTranslate) /\ ty[2] = 1

InitNav ==
  /\ store = [DefaultStore EXCEPT !.scaling = Num(2),
                                  !.viewerSize = [width |-> 200, height |-> 100],
                                  !.imageSize = [width |-> 40, height |-> 20]]
  /\ boundingBox = Box0
  /\ asyncStore = FALSE
  /\ constructor
  /\ Quiet

Drag == \E e \in PointerEvents : DragInRange(e) /\ onMouseMove(e) /\ UNCHANGED <<liveDrag, textVars>>

ZoomIn == NavZoomInRange(RAdd(store.scaling, ZOOM_STEP)) /\ useZoomIn /\ UNCHANGED <<liveDrag, textVars>>

ZoomOut == NavZoomInRange(RSub(store.scaling, ZOOM_STEP)) /\ useZoomOut /\ UNCHANGED <<liveDrag, textVars>>

NextNav ==
  \/ MouseDown
  \/ Drag
  \/ MouseUp
  \/ MouseLeave
  \/ ZoomIn
  \/ ZoomOut

SpecNav == InitNav /\ [][NextNav]_vars

\* C3: in NAVIGATING mode a pointer-move with the pointer phase ACTIVE
\* dispatches exactly set-translation(snapshot.translateX + (now.x - start.x) /
\* snapshot.scale, snapshot.translateY + (now.y - start.y) / snapshot.scale),
\* snapshot and start being what the pointer-down recorded and the handler
\* leaves in place; the store's current scaling and translation play no part.
C3_PanBySnapshot ==
  [][\A e \in PointerEvents :
       (store.viewerState = NAVIGATING /\ pointer.state = ACTIVE /\ onMouseMove(e)) =>
         LET cur == getPointerXY(e)
             tx == RAdd(tmpTransform.translateX,
                        RDiv(RSub(cur.x, pointer.start.x), tmpTransform.scale))
             ty == RAdd(tmpTransform.translateY,
                        RDiv(RSub(cur.y, pointer.start.y), tmpTransform.scale))
         IN  /\ dispatched' = <<setTranslation(tx, ty)>>
             /\ pointer' = [pointer EXCEPT !.now = cur]
             /\ tmpTransform' = tmpTransform]_vars

\* C3 witness: a drag begun at (100,100) at scaling 2 and translation (0,0),
\* now at (150,130) after the scaling changed, has proposed (25,15)
C3_Witness ==
  /\ pointer = [start |-> [x |-> Num(100), y |-> Num(100)],
                now |-> [x |-> Num(150), y |-> Num(130)], state |-> ACTIVE]
  /\ tmpTransform = [tag |-> "set", scale |-> Num(2), translateX |-> Num(0),
                     translateY |-> Num(0)]
  /\ store.scaling # Num(2)
  /\ dispatched = <<setTranslation(Num(25), Num(15))>>

(***************************************************************************)
(* The zoom buttons from the default scaling                               *)
(***************************************************************************)
\* the largest scaling zoom-in is let to reach, in tenths
MaxScalingTenths == 20

InitZoom ==
  /\ store = [DefaultStore EXCEPT !.viewerSize = [width |-> 200, height |-> 100],
                                  !.imageSize = [width |-> 40, height |-> 20]]
  /\ boundingBox = Box0
  /\ asyncStore = FALSE
  /\ constructor
  /\ Quiet

\* zoom-in is offered up to MaxScalingTenths, zoom-out down to the first
\* negative scaling
ZoomInButton == RLe(RAdd(store.scaling, ZOOM_STEP), Norm(MaxScalingTenths, 10)) /\ useZoomIn /\ UNCHANGED <<liveDrag, textVars>>

ZoomOutButton == RLe(Num(0), store.scaling) /\ useZoomOut /\ UNCHANGED <<liveDrag, textVars>>

NextZoom ==
  \/ ZoomInButton
  \/ ZoomOutButton
  \/ PanTool
  \/ ToolbarAnnotate
  \/ ToolbarCrop
  \/ MouseEnter
  \/ MouseLeave

SpecZoom == InitZoom /\ [][NextZoom]_vars

\* C7: starting from scaling 1, every scaling a zoom step proposes to the
\* store is at least the floor 1/10, and so is the store's scaling: it never
\* becomes 0 or negative.
C7_ZoomKeepsFloor ==
  /\ \A i \in 1..Len(dispatched) :
        dispatched[i].type = "SET_SCALING" => RLe(Norm(1, 10), dispatched[i].x)
  /\ RLe(Norm(1, 10), store.scaling)

(***************************************************************************)
(* The viewer on a store that applies dispatches later, in any order       *)
(***************************************************************************)
InitAsync ==
  /\ store = [DefaultStore EXCEPT !.viewerSize = [width |-> 200, height |-> 100],
                                  !.imageSize = [width |-> 40, height |-> 20]]
  /\ boundingBox = Box0
  /\ asyncStore = TRUE
  /\ constructor
  /\ Quiet

\* the component is rendered again, with every dispatch applied, before the
\* next event is handled
Rendered == pending = <<>>

AsyncMouseDown == Rendered /\ MouseDown

AsyncMouseUp == Rendered /\ MouseUp

AsyncKeyUp == Rendered /\ KeyUp

AsyncPanTool == Rendered /\ PanTool

AsyncToolbarAnnotate == Rendered /\ ToolbarAnnotate

AsyncToolbarCrop == Rendered /\ ToolbarCrop

NextAsync ==
  \/ AsyncMouseDown
  \/ AsyncMouseUp
  \/ AsyncKeyUp
  \/ AsyncPanTool
  \/ AsyncToolbarAnnotate
  \/ AsyncToolbarCrop
  \/ ApplyPending

SpecAsync == InitAsync /\ [][NextAsync]_vars

\* C2: once the store has applied both dispatches of the second ANNOTATING
\* pointer-up (append-point, then complete-annotation), whatever the order
\* it applied them in, the annotation completed last has two points and its
\* second point is the one that pointer-up appended.
C2_CompleteSeesAppendedPoint ==
  (/\ Len(dispatched) = 2
   /\ dispatched[2] = completeAnnotation
   /\ pending = <<>>) =>
    /\ store.annotations # <<>>
    /\ LET last == store.annotations[Len(store.annotations)]
       IN  /\ Len(last) = 2
           /\ last[2] = [x |-> dispatched[1].x, y |-> dispatched[1].y]

(***************************************************************************)
(* The coordinate mapper on its own: any transform, any geometry           *)
(***************************************************************************)
MapScalings == {Num(0), Num(1), Num(2)}

MapTranslations == {Num(0), Num(5), Num(-3)}

MapRotations == {0, 90, 180, 270}

MapViewerSizes == {[width |-> 0, height |-> 0], [width |-> 200, height |-> 100]}

MapImageSizes == {[width |-> 0, height |-> 0], [width |-> 40, height |-> 20]}

MapBoxes == {[left |-> 0, top |-> 0, width |-> 200, height |-> 100],
             [left |-> 10, top |-> 20, width |-> 200, height |-> 100]}

\* events handed to the mapper: mouse, touch, and one carrying neither
MapEvents == {MouseEvent(100, 100), MouseEvent(10, 30), MouseEvent(0, 10),
              TouchEvent(7, 9), EmptyEvent}

\* image points whose rendered position is mapped back
ImagePoints == {[x |-> Num(0), y |-> Num(0)], [x |-> Num(0), y |-> Num(10)],
                [x |-> Num(30), y |-> Num(20)]}

InitMap ==
  /\ \E s \in MapScalings, tx \in MapTranslations, ty \in MapTranslations,
        rot \in MapRotations, vs \in MapViewerSizes, is \in MapImageSizes :
        store = [DefaultStore EXCEPT !.scaling = s, !.translationX = tx,
                                     !.translationY = ty, !.rotation = rot,
                                     !.viewerSize = vs, !.imageSize = is]
  /\ boundingBox \in MapBoxes
  /\ asyncStore = FALSE
  /\ constructor
  /\ Quiet

\* the mapper is called with a given event
PointAt == \E e \in MapEvents : CallMapper(e)

\* the mapper is called with the mouse over the rendered image point p
PointAtRendered == \E p \in ImagePoints : CallMapper(MouseEventAt(toDeviceSpace(p)))

NextMap == PointAt \/ PointAtRendered

SpecMap == InitMap /\ [][NextMap]_vars

\* C8: when the scaling is exactly 0 the mapper raises the alert, does not
\* reach its divisions and returns the viewport-local point of the event, a
\* finite coordinate, whatever the event, sizes, translation and rotation.
C8_ZeroScalingFallsBack ==
  (result.called /\ store.scaling = Num(0)) =>
    /\ result.alert
    /\ ~result.divided
    /\ result.xy = getPointerXY(mapArg)
    /\ IsFinite(result.xy.x) /\ IsFinite(result.xy.y)

\* C8 witness: scaling 0, a rotated, translated view in a box at (10,20); the
\* mouse at client (100,100) maps to viewport (90,80), with the alert
C8_Witness ==
  /\ result.called /\ result.alert
  /\ store.scaling = Num(0) /\ store.rotation = 90 /\ store.translationX = Num(5)
  /\ store.viewerSize.width = 200 /\ boundingBox.left = 10
  /\ mapArg = MouseEvent(100, 100)
  /\ result.xy = [x |-> Num(90), y |-> Num(80)]

\* C9: for scaling > 0 the mapper inverts the render transform: the mouse
\* event at the client position where the image point p is drawn maps to p.
C9_RoundTrip ==
  \A p \in ImagePoints :
    (/\ result.called
     /\ ~RLe(store.scaling, Num(0))
     /\ mapArg = MouseEventAt(toDeviceSpace(p))) => result.xy = p

\* C10: for scaling # 0 the mapper's result is: the viewport-local point less
\* half the viewer size, divided by the scaling, less the translation, turned
\* by -rotation with [cos, -sin; sin, cos], plus half the image size.
C10_MapperStepsInOrder ==
  (result.called /\ store.scaling # Num(0)) =>
    LET v == getPointerXY(mapArg)
        ax == RSub(RDiv(RSub(v.x, Half(Num(store.viewerSize.width))), store.scaling),
                   store.translationX)
        ay == RSub(RDiv(RSub(v.y, Half(Num(store.viewerSize.height))), store.scaling),
                   store.translationY)
        turned == CASE store.rotation = 0 -> [x |-> ax, y |-> ay]
                    [] store.rotation = 90 -> [x |-> ay, y |-> RNeg(ax)]
                    [] store.rotation = 180 -> [x |-> RNeg(ax), y |-> RNeg(ay)]
                    [] store.rotation = 270 -> [x |-> RNeg(ay), y |-> ax]
    IN  result.xy = [x |-> RAdd(turned.x, Half(Num(store.imageSize.width))),
                     y |-> RAdd(turned.y, Half(Num(store.imageSize.height)))]

\* C10 witness: rotation 90, scaling 1, no translation, zero sizes: the
\* viewport-local point (0,10) has been mapped to (10,0)
C10_Witness ==
  /\ result.called
  /\ store.rotation = 90 /\ store.scaling = Num(1)
  /\ store.translationX = Num(0) /\ store.translationY = Num(0)
  /\ store.viewerSize.width = 0 /\ store.imageSize.width = 0
  /\ getPointerXY(mapArg) = [x |-> Num(0), y |-> Num(10)]
  /\ result.xy = [x |-> Num(10), y |-> Num(0)]

\* C11: for an event with neither mouse coordinates nor touches the
\* viewport-local point is (0,0), whatever the bounding box's offset.
C11_EmptyEventGivesOrigin ==
  (result.called /\ mapArg = EmptyEvent) => getPointerXY(mapArg) = Origin

\* C11, as the code has it: for an event with neither mouse coordinates nor
\* touches the client position defaults to (0,0), so the viewport-local
\* point is the finite point (-left, -top) of the bounding box: (0,0) only
\* for a box at the client origin.
C11_EmptyEventGivesClientOrigin ==
  (result.called /\ mapArg = EmptyEvent) =>
    /\ getPointerXY(mapArg) = [x |-> Num(-boundingBox.left), y |-> Num(-boundingBox.top)]
    /\ (getPointerXY(mapArg) = Origin) <=> (boundingBox.left = 0 /\ boundingBox.top = 0)

\* C11 witness: the mapper was handed the empty event in a box at (10,20) at
\* scaling 0, and returned the viewport-local point (-10,-20)
C11_Witness ==
  /\ result.called /\ mapArg = EmptyEvent
  /\ boundingBox.left = 10 /\ boundingBox.top = 20
  /\ store.scaling = Num(0)
  /\ result.xy = [x |-> Num(-10), y |-> Num(-20)]

\* C15: for a mouse event that carries coordinates, a zero coordinate
\* included, the viewport-local point is (clientX - left, clientY - top); the
\* first touch is used only when the event carries no mouse coordinates.
C15_ViewportPointOfEvent ==
  result.called =>
    LET from(xy) == [x |-> RSub(xy.clientX, Num(boundingBox.left)),
                     y |-> RSub(xy.clientY, Num(boundingBox.top))]
    IN  /\ mapArg.mouse.hasXY => getPointerXY(mapArg) = from(mapArg.mouse)
        /\ (~mapArg.mouse.hasXY /\ mapArg.touches # <<>>) =>
             getPointerXY(mapArg) = from(mapArg.touches[1])

(***************************************************************************)
(* The component's lifecycle (SpecLife): instances are constructed,        *)
(* mounted and unmounted, the window is resized, images finish loading     *)
(***************************************************************************)
MaxInstances == 2

\* the section's offsetWidth and offsetHeight
ContainerSizes == {<<202, 102>>, <<303, 152>>}

\* what this.svgImage may be after render: null when no subject is shown, an
\* SVGImage whose image is missing, is empty, or has a size
SVGImages ==
  {NoSVGImage, SVGImageOf(NoElement), SVGImageOf(Element(0, 0)), SVGImageOf(Element(40, 20))}

InitLife ==
  /\ store = DefaultStore
  /\ boundingBox = [left |-> 10, top |-> 20, width |-> 300, height |-> 150]
  /\ asyncStore = FALSE
  /\ constructor
  /\ dom = [phase |-> "constructed", instance |-> 1, section |-> NoElement, svg |-> FALSE,
            svgImage |-> NoSVGImage, viewBox |-> RenderedViewBox, resize |-> {}, keyup |-> {}]
  /\ liveDrag = FALSE
  /\ line = NullLine
  /\ sentences = NotCalled
  /\ pending = <<>>
  /\ dispatched = <<>>
  /\ mapArg = EmptyEvent
  /\ result = NoResult

\* React renders the instance, then calls componentDidMount
Mount ==
  /\ dom.phase = "constructed"
  /\ \E size \in ContainerSizes, img \in SVGImages :
       componentDidMount(render(dom, Element(size[1], size[2]), img))
  /\ UNCHANGED <<liveDrag, textVars>>

\* React calls componentWillUnmount and drops the instance from the page
Unmount ==
  /\ dom.phase = "mounted"
  /\ componentWillUnmount
  /\ UNCHANGED <<liveDrag, textVars>>

\* The page shows the viewer again: a new instance, as its constructor leaves it
NewInstance ==
  /\ dom.phase = "unmounted"
  /\ dom.instance < MaxInstances
  /\ pointer' = [start |-> Origin, now |-> Origin, state |-> IDLE]
  /\ rectangleStart' = Origin
  /\ tmpTransform' = NullTransform
  /\ cropping' = IDLE
  /\ mouseInViewer' = FALSE
  /\ popup' = "null"
  /\ dom' = [dom EXCEPT !.phase = "constructed", !.instance = @ + 1]
  /\ dispatched' = <<>>
  /\ UNCHANGED <<store, boundingBox, asyncStore, pending, mapArg, result, liveDrag, textVars>>

\* The window fires 'resize': the section, while on the page, has its new
\* size, and the instance's updateSize runs if it is a listener
WindowResize ==
  \E size \in ContainerSizes :
    LET d == IF dom.section.present
             THEN [dom EXCEPT !.section = Element(size[1], size[2])]
             ELSE dom
    IN  IF dom.instance \in dom.resize
        THEN /\ UNCHANGED <<componentVars, asyncStore, mapArg, result, liveDrag, textVars>>
             /\ dom' = updateSizeDom(d, boundingBox)
             /\ boundingBox' = updateSizeBox(d, boundingBox)
             /\ Dispatch(updateSizeActions(d, boundingBox))
        ELSE UNCHANGED vars

\* The document fires 'keyup': the instance's escapeCrop runs if it is a listener
DocumentKeyUp ==
  \E key \in Keys :
    IF dom.instance \in dom.keyup
    THEN escapeCrop(key) /\ UNCHANGED <<liveDrag, textVars>>
    ELSE UNCHANGED vars

\* updateSize is called on the instance, whatever its phase
CallUpdateSize == updateSize /\ UNCHANGED <<liveDrag, textVars>>

\* An image finishes loading and calls the onLoad it was given, whatever the
\* instance's phase by then
ImageLoad == onImageLoad /\ UNCHANGED <<liveDrag, textVars>>

LifeMouseDown == dom.phase = "mounted" /\ MouseDown

LifeMouseLeave == dom.phase = "mounted" /\ MouseLeave

NextLife ==
  \/ Mount
  \/ Unmount
  \/ NewInstance
  \/ WindowResize
  \/ DocumentKeyUp
  \/ CallUpdateSize
  \/ ImageLoad
  \/ LifeMouseDown
  \/ LifeMouseLeave
  \/ PanTool
  \/ ToolbarCrop

SpecLife == InitLife /\ [][NextLife]_vars

(***************************************************************************)
(* Claims on the lifecycle (SpecLife)                                      *)
(***************************************************************************)
\* C12: a resize call with both refs set reports the section's size less the
\* offset, so the report depends on the container dimensions alone; a call
\* that follows a report for the same container dimensions repeats that
\* report and leaves the viewBox, the svg's box and the stored viewer size as
\* they were; and no resize call changes the pointer state (start, now,
\* phase), the drag snapshot, rectangle-start, the cropping flag, the
\* interaction mode or the transform (scale, translation, rotation).
C12_ResizeIdempotent ==
  [][updateSize =>
       LET w == dom.section.width - 2
           h == dom.section.height - 2
       IN  /\ <<pointer, tmpTransform, rectangleStart, cropping>>'
                = <<pointer, tmpTransform, rectangleStart, cropping>>
           /\ store'.viewerState = store.viewerState
           /\ <<store.scaling, store.translationX, store.translationY, store.rotation>>'
                = <<store.scaling, store.translationX, store.translationY, store.rotation>>
           /\ (dom.section.present /\ dom.svg) =>
                /\ dispatched' = <<updateViewerSize(w, h)>>
                /\ store'.viewerSize = [width |-> w, height |-> h]
                /\ (dispatched # <<>> /\ dispatched[1].type = "UPDATE_VIEWER_SIZE") =>
                     /\ dispatched'[1] = dispatched[1]
                     /\ store'.viewerSize = store.viewerSize
                     /\ dom' = dom
                     /\ boundingBox' = boundingBox]_vars

\* C12 witness: in the middle of a pan drag the viewer has been resized to a
\* 303 x 152 section and reported 301 x 150
C12_Witness ==
  /\ pointer.state = ACTIVE /\ tmpTransform.tag = "set"
  /\ dom.section = Element(303, 152)
  /\ dom.viewBox = <<RNeg(Half(Num(301))), Num(-75), Num(301), Num(150)>>
  /\ dispatched = <<updateViewerSize(301, 150)>>
  /\ store.viewerSize = [width |-> 301, height |-> 150]

\* C13: the window's resize listeners and the document's key-up listeners
\* are exactly the mounted instance: while an instance is mounted each list
\* holds that instance once and nothing else, and while none is mounted
\* (before the first mount, after an unmount, across mount/unmount cycles)
\* both lists are empty; so a resize or key-up event that arrives while no
\* instance is mounted runs no handler and changes nothing.
C13_ListenersWhileMounted ==
  /\ [](IF dom.phase = "mounted"
        THEN dom.resize = {dom.instance} /\ dom.keyup = {dom.instance}
        ELSE dom.resize = {} /\ dom.keyup = {})
  /\ [][(dom.phase # "mounted" /\ (WindowResize \/ DocumentKeyUp)) =>
          UNCHANGED <<store, componentVars, boundingBox, dispatched, dom>>]_vars

\* C13 witness: after one mount/unmount cycle, in which the crop tool was
\* chosen, a second instance is mounted and is the only listener
C13_Witness ==
  /\ dom.phase = "mounted" /\ dom.instance = 2
  /\ dom.resize = {2} /\ dom.keyup = {2}
  /\ store.viewerState = CROPPING

\* C18: a resize call made while the section or the svg ref is missing
\* dispatches nothing and changes neither the store, the component's fields,
\* the svg's box nor the page; an image-load call made while the SVGImage or
\* its image is missing dispatches nothing (none of set-image-metadata,
\* update-image-size, reset-view) and changes no state either.
C18_EarlyCallsAreNoOps ==
  /\ [][(updateSize /\ (~dom.section.present \/ ~dom.svg)) =>
          /\ dispatched' = <<>>
          /\ UNCHANGED <<store, componentVars, boundingBox, dom, pending>>]_vars
  /\ [][(onImageLoad /\ (~dom.svgImage.present \/ ~dom.svgImage.image.present)) =>
          /\ dispatched' = <<>>
          /\ UNCHANGED <<store, componentVars, boundingBox, dom, pending>>]_vars

\* C18 witness: after an unmount that followed a resize report, with the
\* refs null again, a call has dispatched nothing and the stored viewer size
\* is still the one reported while mounted
C18_Witness ==
  /\ dom.phase = "unmounted" /\ ~dom.section.present /\ ~dom.svg /\ ~dom.svgImage.present
  /\ dispatched = <<>>
  /\ store.viewerSize = [width |-> 301, height |-> 150]
  /\ dom.viewBox = <<RNeg(Half(Num(301))), Num(-75), Num(301), Num(150)>>

\* C19: viewport resize, the recomputation and report of the viewer
\* geometry, is triggered by each of: component mount, every window resize
\* event while mounted, and every image-load completion.
C19_ResizeOnMountResizeAndImageLoad ==
  [][(Mount \/ (dom.phase = "mounted" /\ WindowResize)
        \/ (onImageLoad /\ dom.svgImage.present /\ dom.svgImage.image.present)) =>
       \E i \in 1..Len(dispatched') :
         dispatched'[i] =
           updateViewerSize(dom'.section.width - 2, dom'.section.height - 2)]_vars

\* C19, as the code has it: mount and every window resize event while
\* mounted recompute the viewer geometry from the section's size and report
\* it; an image-load completion does not: it dispatches set-image-metadata,
\* update-image-size and reset-view only, and leaves the viewBox, the svg's
\* box and the stored viewer size as they were.
C19_ResizeOnMountAndWindowResize ==
  /\ [][(Mount \/ (dom.phase = "mounted" /\ WindowResize)) =>
          LET w == dom'.section.width - 2
              h == dom'.section.height - 2
          IN  /\ dispatched'[1] = updateViewerSize(w, h)
              /\ store'.viewerSize = [width |-> w, height |-> h]
              /\ boundingBox'.width = w /\ boundingBox'.height = h
              /\ dom'.viewBox = <<RNeg(Half(Num(w))), RNeg(Half(Num(h))), Num(w), Num(h)>>]_vars
  /\ [][(onImageLoad /\ dom.svgImage.present /\ dom.svgImage.image.present) =>
          LET img == dom.svgImage.image
              imgW == IF img.width = 0 THEN 1 ELSE img.width
              imgH == IF img.height = 0 THEN 1 ELSE img.height
          IN  /\ dispatched' = <<setImageMetadata(imgW, imgH), updateImageSize(imgW, imgH),
                                 resetView>>
              /\ store'.viewerSize = store.viewerSize
              /\ UNCHANGED <<dom, boundingBox>>]_vars

\* C19 witness: mounted in a 303 x 152 section, the viewer has reported
\* 301 x 150; then the 40 x 20 image finished loading and only its size and
\* the view reset were dispatched
C19_Witness ==
  /\ dom.phase = "mounted" /\ dom.section = Element(303, 152)
  /\ dom.svgImage = SVGImageOf(Element(40, 20))
  /\ dispatched = <<setImageMetadata(40, 20), updateImageSize(40, 20), resetView>>
  /\ store.viewerSize = [width |-> 301, height |-> 150]
  /\ store.imageSize = [width |-> 40, height |-> 20]

(***************************************************************************)
(* Further claims on the synchronous viewer (Spec)                         *)
(***************************************************************************)
\* C14: in NAVIGATING mode, after a pointer-up or a pointer-leave the
\* pointer phase is IDLE and no drag snapshot remains; and in every mode a
\* pointer-leave leaves the pointer phase IDLE.
C14_UpOrLeaveResetsPointer ==
  [][\A e \in PointerEvents :
       /\ (store.viewerState = NAVIGATING /\ (onMouseUp(e) \/ onMouseLeave(e))) =>
            (pointer'.state = IDLE /\ tmpTransform'.tag # "set")
       /\ onMouseLeave(e) => pointer'.state = IDLE]_vars

\* C20: whatever the mode is when an event arrives, and it may have changed
\* since the event before, no handler reads a property of null, so each of
\* pointer-down, pointer-move, pointer-up, pointer-leave, pointer-enter and
\* key-up completes: in every state the viewer reaches, and on every
\* combination of mode, pointer phase, drag snapshot (never set, discarded,
\* set) and annotation in progress (null, with a point).  Pointer-move and
\* pointer-up are the handlers that read a value that may be null; the
\* cropping flag is read by no handler.
C20_HandlersComplete ==
  /\ ~onMouseMoveThrows(store.viewerState, pointer, tmpTransform)
  /\ ~onMouseUpThrows(store.viewerState, store.annotationInProgress)
  /\ \A mode \in {NAVIGATING, ANNOTATING, CROPPING}, phase \in {IDLE, ACTIVE},
        tmp \in {NullTransform, FalseTransform, SetTransform(store)},
        aip \in {NoAnnotation, [isNull |-> FALSE, points |-> <<Origin>>]} :
       /\ ~onMouseMoveThrows(mode, [pointer EXCEPT !.state = phase], tmp)
       /\ ~onMouseUpThrows(mode, aip)

\* C20 witness: a crop was being drawn when the pan tool was used, a pan
\* drag was under way when ANNOTATING was chosen, and a first point has been
\* annotated: every gesture is part-way and the handlers have run in turn
C20_Witness ==
  /\ store.viewerState = ANNOTATING
  /\ pointer.state = ACTIVE /\ tmpTransform.tag = "set"
  /\ cropping = ACTIVE
  /\ Len(store.annotationInProgress.points) = 1
  /\ dispatched # <<>> /\ dispatched[1].type = "ADD_ANNOTATION_POINT"

(***************************************************************************)
(* The viewer with its tool buttons (SpecTools): pointer-down, pointer-up  *)
(* and pointer-leave, the key-up handler, the pan and zoom buttons and the *)
(* mode toolbar, on a synchronous store, from a view zoomed to 2.  No      *)
(* point is annotated here: a pointer-up is offered outside ANNOTATING.    *)
(***************************************************************************)
ToolsMouseUp == store.viewerState # ANNOTATING /\ MouseUp

NextTools ==
  \/ MouseDown
  \/ ToolsMouseUp
  \/ MouseLeave
  \/ KeyUp
  \/ PanTool
  \/ ZoomIn
  \/ ZoomOut
  \/ ToolbarAnnotate
  \/ ToolbarCrop

SpecTools == InitNav /\ [][NextTools]_vars

(***************************************************************************)
(* Claims on the viewer with its tool buttons (SpecTools)                  *)
(***************************************************************************)
\* C16: in ANNOTATING mode a pointer-down changes no state: the pointer
\* state (start, now, phase), the drag snapshot, rectangle-start and the
\* cropping flag are as before, nothing is dispatched and the store is as
\* before.
C16_AnnotatingDownChangesNothing ==
  [][\A e \in PointerEvents :
       (store.viewerState = ANNOTATING /\ onMouseDown(e)) =>
         /\ pointer' = pointer
         /\ tmpTransform' = tmpTransform
         /\ rectangleStart' = rectangleStart
         /\ cropping' = cropping
         /\ dispatched' = <<>>
         /\ store' = store]_vars

\* C16 witness: ANNOTATING mode was chosen in the middle of a pan drag that
\* started at (100,100); nothing has been dispatched since, and the drag's
\* pointer state and snapshot are still there
C16_Witness ==
  /\ store.viewerState = ANNOTATING
  /\ pointer = [state |-> ACTIVE, start |-> [x |-> Num(100), y |-> Num(100)],
                now |-> [x |-> Num(100), y |-> Num(100)]]
  /\ tmpTransform.tag = "set"
  /\ dispatched = <<>>

\* C17: the pan tool dispatches set-mode NAVIGATING and nothing else, zoom-in
\* dispatches set-scale(scale + 0.1) and nothing else, zoom-out dispatches
\* set-scale(scale - 0.1) and nothing else; none of the three changes the
\* pointer's start, now or phase, the drag snapshot, rectangle-start or the
\* cropping flag, in any mode and phase.
C17_ToolsBypassPointerState ==
  [][/\ usePanTool => dispatched' = <<setViewerState(NAVIGATING)>>
     /\ useZoomIn => dispatched' = <<setScaling(RAdd(store.scaling, Norm(1, 10)))>>
     /\ useZoomOut => dispatched' = <<setScaling(RSub(store.scaling, Norm(1, 10)))>>
     /\ (usePanTool \/ useZoomIn \/ useZoomOut) =>
          /\ pointer' = pointer
          /\ tmpTransform' = tmpTransform
          /\ rectangleStart' = rectangleStart
          /\ cropping' = cropping]_vars

\* C17 witness: the pan tool was used while a crop rectangle was being
\* drawn: the mode is NAVIGATING and the cropping flag is still ACTIVE
C17_Witness ==
  /\ dispatched = <<setViewerState(NAVIGATING)>>
  /\ store.viewerState = NAVIGATING
  /\ cropping = ACTIVE
  /\ rectangleStart # Origin

(***************************************************************************)
(* Drags and their history (SpecDrag): the pointer handlers and the mode   *)
(* tools on a synchronous store, from a view zoomed to 2, with liveDrag    *)
(* recording the pointer events as they arrive                             *)
(***************************************************************************)
MaxDragPoints == 1

DragDown ==
  \E e \in PointerEvents :
    /\ onMouseDown(e)
    /\ liveDrag' = (store.viewerState = NAVIGATING \/ liveDrag)
    /\ UNCHANGED textVars

DragUp ==
  \E e \in PointerEvents :
    /\ store.viewerState = ANNOTATING => PointsHeld(store) < MaxDragPoints
    /\ onMouseUp(e)
    /\ liveDrag' = FALSE
    /\ UNCHANGED textVars

DragMove ==
  \E e \in PointerEvents :
    /\ DragInRange(e)
    /\ onMouseMove(e)
    /\ UNCHANGED <<liveDrag, textVars>>

DragLeave ==
  \E e \in PointerEvents :
    /\ onMouseLeave(e)
    /\ liveDrag' = FALSE
    /\ UNCHANGED textVars

NextDrag ==
  \/ DragDown
  \/ DragUp
  \/ DragMove
  \/ DragLeave
  \/ PanTool
  \/ ToolbarAnnotate
  \/ ToolbarCrop

SpecDrag == InitNav /\ [][NextDrag]_vars

(***************************************************************************)
(* Claims on drags (SpecDrag)                                              *)
(***************************************************************************)
\* C21: whenever a pointer-move dispatches set-translation, the mode is
\* NAVIGATING and a pointer-down has been handled in NAVIGATING mode with no
\* pointer-up and no pointer-leave event after it, whatever the modes in
\* between; so a pointer-move in ANNOTATING or CROPPING mode never
\* dispatches set-translation.
C21_TranslationOnlyInLiveDrag ==
  [][\A e \in PointerEvents :
       (/\ onMouseMove(e)
        /\ \E i \in 1..Len(dispatched') : dispatched'[i].type = "SET_TRANSLATION") =>
         (store.viewerState = NAVIGATING /\ liveDrag)]_vars

\* C22: in every reachable state with the pointer phase ACTIVE a drag
\* snapshot is present, and it is the transform that was current at the most
\* recent pointer-down handled in NAVIGATING mode: such a pointer-down makes
\* the phase ACTIVE and the snapshot the store's scale and translation, and
\* any other step that ends with the phase ACTIVE started with it ACTIVE and
\* leaves the snapshot as it was.
C22_ActiveHasSnapshot ==
  /\ [](pointer.state = ACTIVE => tmpTransform.tag = "set")
  /\ [][\A e \in PointerEvents :
          (store.viewerState = NAVIGATING /\ onMouseDown(e)) =>
            /\ pointer'.state = ACTIVE
            /\ tmpTransform' = [tag |-> "set", scale |-> store.scaling,
                                translateX |-> store.translationX,
                                translateY |-> store.translationY]]_vars
  /\ [][(/\ pointer'.state = ACTIVE
         /\ ~(store.viewerState = NAVIGATING /\ \E e \in PointerEvents : onMouseDown(e))) =>
          (pointer.state = ACTIVE /\ tmpTransform' = tmpTransform)]_vars

\* C22 witness: a second drag began with the image translated to (25,15) and
\* has since moved it back to (0,0); the snapshot still holds (25,15)
C22_Witness ==
  /\ pointer.state = ACTIVE
  /\ liveDrag
  /\ tmpTransform = [tag |-> "set", scale |-> Num(2), translateX |-> Num(25),
                     translateY |-> Num(15)]
  /\ store.translationX = Num(0) /\ store.translationY = Num(0)

(***************************************************************************)
(* Selecting annotations (SpecSelect): points are annotated and existing   *)
(* annotations, the user's and MaxPrevious previous ones, are clicked      *)
(***************************************************************************)
MaxPrevious == 2

MaxSelectPoints == 3

\* a pointer-up is offered while the store has room for the point it appends
SelectUp ==
  \E e \in PointerEvents :
    /\ store.viewerState = ANNOTATING => PointsHeld(store) < MaxSelectPoints
    /\ onMouseUp(e)
    /\ UNCHANGED <<liveDrag, textVars>>

\* A click on the line of an annotation: one the user has completed, or a
\* previous annotation
SelectAnnotation ==
  \E i \in 0..(MaxSelectPoints + MaxPrevious), previous \in BOOLEAN :
    /\ IF previous THEN i < MaxPrevious ELSE i < Len(store.annotations)
    /\ onSelectAnnotation(i, previous)
    /\ UNCHANGED <<liveDrag, textVars>>

NextSelect ==
  \/ MouseDown
  \/ SelectUp
  \/ SelectAnnotation
  \/ PanTool
  \/ ToolbarAnnotate
  \/ ToolbarCrop

SpecSelect == Init /\ [][NextSelect]_vars

\* C23: a click on an annotation dispatches select-annotation, for the
\* annotation clicked, exactly when no annotation is in progress, and
\* dispatches nothing otherwise and changes nothing else; so after the first
\* ANNOTATING pointer-up and before the second a click on a completed or
\* previous annotation dispatches nothing, and whenever select-annotation has
\* just been dispatched no annotation is in progress.
C23_SelectOnlyWhenNoneInProgress ==
  /\ [][\A i \in 0..(MaxSelectPoints + MaxPrevious), previous \in BOOLEAN :
          onSelectAnnotation(i, previous) =>
            /\ dispatched' = IF store.annotationInProgress = NoAnnotation
                             THEN <<[type |-> "SELECT_ANNOTATION", x |-> Num(i), y |-> Num(0),
                                     mode |-> IF previous THEN "previous" ELSE "user"]>>
                             ELSE <<>>
            /\ UNCHANGED <<store, componentVars>>]_vars
  /\ []((\E k \in 1..Len(dispatched) : dispatched[k].type = "SELECT_ANNOTATION")
          => store.annotationInProgress = NoAnnotation)

\* C23 witness: with one annotation completed and the first point of the
\* next one placed, a click has dispatched nothing
C23_Witness ==
  /\ store.viewerState = ANNOTATING
  /\ Len(store.annotations) = 1
  /\ Len(store.annotationInProgress.points) = 1
  /\ dispatched = <<>>

(***************************************************************************)
(* constructText applied to bounded lines                                  *)
(***************************************************************************)
MaxClusters == 2

MaxWords == 2

Words == {NullWord, Str(<<>>), Str(<<"a">>), Str(<<"b", "c">>)}

SeqsUpTo(S, n) == UNION {[1..k -> S] : k \in 0..n}

Lines == {NullLine, LineWithoutText}
           \cup {Line(clusters) : clusters \in SeqsUpTo(SeqsUpTo(Words, MaxWords), MaxClusters)}

InitText ==
  /\ store = DefaultStore
  /\ boundingBox = Box0
  /\ asyncStore = FALSE
  /\ constructor
  /\ dom = DomMounted
  /\ liveDrag = FALSE
  /\ pending = <<>>
  /\ dispatched = <<>>
  /\ mapArg = EmptyEvent
  /\ result = NoResult
  /\ line \in Lines
  /\ sentences = NotCalled

ConstructText ==
  /\ sentences' = Returned(constructText(line))
  /\ UNCHANGED <<store, componentVars, boundingBox, asyncStore, pending, dispatched,
                 mapArg, result, dom, liveDrag, line>>

NextText == ConstructText

SpecText == InitText /\ [][NextText]_vars

\* the non-empty i-th words of the clusters from the k-th on, in cluster order
RECURSIVE IthWords(_, _, _)
IthWords(clusters, i, k) ==
  IF k > Len(clusters) THEN <<>>
  ELSE LET rest == IthWords(clusters, i, k + 1)
       IN IF /\ i <= Len(clusters[k])
             /\ ~clusters[k][i].isNull
             /\ clusters[k][i].chars # <<>>
            THEN <<clusters[k][i]>> \o rest
            ELSE rest

\* the words' characters with one space between each two words
RECURSIVE Spaced(_)
Spaced(ws) ==
  IF ws = <<>> THEN <<>>
  ELSE IF Len(ws) = 1 THEN ws[1].chars
  ELSE ws[1].chars \o <<" ">> \o Spaced(Tail(ws))

LongestCluster(clusters) ==
  IF clusters = <<>> THEN 0
  ELSE CHOOSE n \in {Len(clusters[k]) : k \in 1..Len(clusters)} :
         \A k \in 1..Len(clusters) : Len(clusters[k]) <= n

\* C24: constructText transposes the cluster words into sentences: for a line
\* with clusters_text, sentence i is the space-joined sequence, in cluster
\* order, of the non-empty i-th words of each cluster, and there are as many
\* sentences as the longest cluster has words; a line with no clusters_text
\* (or no line) yields the empty list.
C24_ConstructTextTransposes ==
  sentences.called =>
    IF line.isNull \/ ~line.has_clusters_text
      THEN sentences.value = <<>>
      ELSE /\ Len(sentences.value) = LongestCluster(line.clusters_text)
           /\ \A i \in 1..Len(sentences.value) :
                sentences.value[i] = Spaced(IthWords(line.clusters_text, i, 1))

\* two clusters of different lengths and an empty word: the first sentence
\* joins the first words in cluster order, the second has no word
C24_Witness ==
  /\ line = Line(<<<<Str(<<"b", "c">>), Str(<<>>)>>, <<Str(<<"a">>)>>>>)
  /\ sentences = Returned(<<<<"b", "c", " ", "a">>, <<>>>>)

====
